---- MODULE Spec2Model ----
(***************************************************************************)
(* Model of crates/rbuilder/src/building/conflict.rs                       *)
(*   find_conflict_slow : the conflict analyzer (specification Spec)       *)
(*   get_conflict_sets  : the conflict clusterer (specification            *)
(*                        ClusterSpec)                                     *)
(* and of crates/rbuilder/src/live_builder/order_input/clean_orderpool.rs  *)
(*   spawn_clean_orderpool_job : the spawned task (specifications JobSpec  *)
(*                        and, with fairness, JobFairSpec)                 *)
(***************************************************************************)
EXTENDS Integers, Sequences, FiniteSets, TLC

VARIABLES
    \* ---- find_conflict_slow: inputs and environment
    orders,           \* the `orders` slice, a sequence of order ids
    nonces,           \* order id -> Order::nonces(), a sequence of nonces
    alone,            \* order id -> what committing the order alone yields
    \* ---- find_conflict_slow: locals
    pc,               \* position in the function
    idx,              \* index of the baseline loop (line 35)
    pi,               \* index of order1 in the cartesian product (line 48)
    pj,               \* index of order2 in the cartesian product (line 48)
    profits_alone,    \* HashMap<OrderId, U256> (line 34)
    results,          \* HashMap<(OrderId, OrderId), Conflict> (line 46)
    owner,            \* who holds the state-provider handle
    provider,         \* the chain state the state-provider handle gives
    fork,             \* orders committed on the live fork
    gas_used,         \* line 76
    blob_gas_used,    \* line 77
    ret,              \* "running", "Ok" or "Err"
    returned,         \* the map handed to the caller: Some(map) on Ok, else None
    \* ---- find_conflict_slow: history of the commit_order calls
    first,            \* outcome of order1 in the last pair simulation
    call,             \* the last commit_order call: its site and arguments
    second,           \* pair -> outcome of order2 in the pair's last simulation
    infra_seen,       \* some commit_order call returned an infrastructure error
    late_commits,     \* commit_order was called after an infrastructure error
    dropped_entries,  \* entries computed when an infrastructure error returned
    \* ---- get_conflict_sets
    conflicts,        \* the ConflictMap given to the clusterer
    todo,             \* keys of `conflicts` the for loop has not visited yet
    cl,               \* [set_id, conflict_sets, order_to_conflict_set]
    cpc,              \* "loop" or "done"
    out,              \* the returned Vec<HashSet<OrderId>>, a sequence of sets
    \* ---- spawn_clean_orderpool_job: the spawned task and what it shares
    jpc,              \* position of the task
    cancelled,        \* global_cancellation is cancelled
    holder,           \* who holds the orderpool mutex: "none", "job", "other"
    stream,           \* the block subscription of the task
    block,            \* the block of the current iteration, an Option
    log               \* history: one record per block the loop received

avars == <<orders, nonces, alone, pc, idx, pi, pj, profits_alone, results,
           owner, provider, fork, gas_used, blob_gas_used, ret, returned,
           first, call, second, infra_seen, late_commits, dropped_entries>>
cvars == <<conflicts, todo, cl, cpc, out>>
jvars == <<jpc, cancelled, holder, stream, block, log>>
vars == <<avars, cvars, jvars>>

----------------------------------------------------------------------------
(* Bounds and input domains *)

MaxOrders == 2
MaxEntries == 3
MaxBlocks == 2

IdOrder == <<"A", "B", "C">>
OrderIds == {IdOrder[k] : k \in 1..Len(IdOrder)}
Profits == {30, 50}
GasVals == {2}
BlobVals == {1}

EmptyMap == << >>

(* An Option is a set of at most one value, None the empty set. *)
None == {}
Some(v) == {v}
Unwrap(opt) == CHOOSE v \in opt : TRUE

Put(m, k, v) == [x \in (DOMAIN m) \cup {k} |-> IF x = k THEN v ELSE m[x]]


----------------------------------------------------------------------------
(* Conflict (lines 12-25) *)

NoConflict == [kind |-> "NoConflict"]
NonceConflict(address) == [kind |-> "Nonce", address |-> address]
Fatal == [kind |-> "Fatal"]
DifferentProfit(pa, pwc) ==
    [kind |-> "DifferentProfit", profit_alone |-> pa, profit_with_conflict |-> pwc]

(* A nonce precondition of an order: the account and whether it is optional. *)
Nonce(address, optional) == [address |-> address, optional |-> optional]

(* Order::nonces(): one precondition per account, in the order the order    *)
(* lists them.  The lists tried: none, one required, one optional, and two *)
(* accounts with the other account listed first.                            *)
NonceLists ==
    { << >>,
      <<Nonce("x", FALSE)>>,
      <<Nonce("x", TRUE)>>,
      <<Nonce("y", FALSE), Nonce("x", FALSE)>> }

(* Slices of orders: ids are opaque keys, so a slice is taken up to renaming: *)
(* the k-th distinct id of the slice is IdOrder[k].                           *)
IndexOf(id) == CHOOSE k \in 1..Len(IdOrder) : IdOrder[k] = id
Range(s) == {s[k] : k \in 1..Len(s)}
IsSlice(s) ==
    \A k \in 1..Len(s) :
        \/ \E m \in 1..(k - 1) : s[m] = s[k]
        \/ IndexOf(s[k]) = Cardinality({s[m] : m \in 1..(k - 1)}) + 1
Slices ==
    UNION {{s \in [1..n -> Range(IdOrder)] : IsSlice(s)} : n \in 0..MaxOrders}

(* What fork.commit_order returns: an infrastructure error (the outer Err, *)
(* taken by `?`), an order-level error (Ok(Err)), or Ok(Ok(res)).          *)
Infra == [tag |-> "Infra"]
OrderErr == [tag |-> "OrderErr"]
OrderOk(profit, gas, blob) ==
    [tag |-> "Ok", coinbase_profit |-> profit, gas_used |-> gas, blob_gas_used |-> blob]
(* The order-level part of an outcome: failed, or succeeded with a profit. *)
Succeeds(profit) == [tag |-> "Ok", coinbase_profit |-> profit]
OrderLevel == {OrderErr} \cup {Succeeds(p) : p \in Profits}
PairOutcomes ==
    {OrderErr} \cup {OrderOk(p, g, b) : p \in Profits, g \in GasVals, b \in BlobVals}

(* What the pair loop keeps of order1's result (lines 80-81), and no result. *)
Usage(r) == [tag |-> "Ok", gas_used |-> r.gas_used, blob_gas_used |-> r.blob_gas_used]
NoResult == [tag |-> "None"]

(* The chain state before the call, as the set of orders whose changes it *)
(* holds.                                                                 *)
BaseState == {}

(* BlockState: new_arc wraps the handle with no cached change; the fork   *)
(* sees the provider's state and the changes committed so far.            *)
NewArc(state_provider) == [provider |-> state_provider, changes |-> << >>]
Visible(state) == state.provider \cup Range(state.changes)

(* Mutant of into_provider: the cached changes go into the provider. *)
IntoProviderLeaks(state) == Visible(state)

(* BlockState::into_provider: the handle comes back, the cached changes *)
(* are dropped with the BlockState.                                     *)
IntoProvider(state) == state.provider

(* A commit_order call: where it is made, for which order or pair, the *)
(* starting counters passed and the chain state the fork shows to it.  *)
NoCall == [site |-> "none"]
CommitCall(site, key, gas, blob, visible) ==
    [site |-> site, key |-> key, cumulative_gas_used |-> gas,
     cumulative_blob_gas_used |-> blob, visible |-> visible]

(* The baseline run of an order (line 38): the order's own outcome, or an   *)
(* infrastructure error.                                                    *)
BaselineOutcomes(order) ==
    {Infra}
    \cup (IF alone[order] = OrderErr
          THEN {OrderErr}
          ELSE {OrderOk(alone[order].coinbase_profit, g, b) :
                    g \in GasVals, b \in BlobVals})

(* The locals of get_conflict_sets as they are made (lines 114-116). *)
EmptyClusters ==
    [set_id |-> 0, conflict_sets |-> EmptyMap, order_to_conflict_set |-> EmptyMap]

(* The clusterer is not running. *)
ClusterIdle ==
    /\ conflicts = EmptyMap
    /\ todo = {}
    /\ cl = EmptyClusters
    /\ cpc = "idle"
    /\ out = << >>

(* The task of spawn_clean_orderpool_job is not spawned. *)
JobIdle ==
    /\ jpc = "idle"
    /\ cancelled = FALSE
    /\ holder = "none"
    /\ stream = "none"
    /\ block = None
    /\ log = << >>

----------------------------------------------------------------------------
(* find_conflict_slow (lines 27-109) *)

(* Mutants of `?`: the error is swallowed; any error returns. *)
PropagatesNever(r) == FALSE
PropagatesOrderErrors(r) == r.tag # "Ok"

(* `?` on the result of commit_order (lines 38, 78, 87): an infrastructure *)
(* error leaves the function at once.                                      *)
Propagates(r) == r.tag = "Infra"

(* Mutant of line 49: only order2 is looked up. *)
HasBaselinesSecondOnly(order1, order2) == order2 \in DOMAIN profits_alone

(* Line 49: both orders have a baseline profit. *)
HasBaselines(order1, order2) ==
    order1 \in DOMAIN profits_alone /\ order2 \in DOMAIN profits_alone

(* Mutant of line 53: the ids are not compared. *)
SameIdNever(order1, order2) == FALSE

(* Line 53: the pair is an order with itself. *)
SameId(order1, order2) == order1 = order2

(* Mutant of lines 58-61: only order1's first nonce is put in the map. *)
NonceMapFirstOnly(order1) ==
    LET ns == nonces[order1]
    IN  IF ns = << >> THEN EmptyMap ELSE [a \in {ns[1].address} |-> ns[1]]

(* Lines 58-61: order1's nonces by address; a later insert of the same *)
(* address replaces the earlier one.                                   *)
NonceMap(order1) ==
    LET ns == nonces[order1]
        addrs == {ns[k].address : k \in 1..Len(ns)}
        last(a) == CHOOSE k \in 1..Len(ns) :
                       /\ ns[k].address = a
                       /\ \A m \in (k + 1)..Len(ns) : ns[m].address # a
    IN  [a \in addrs |-> ns[last(a)]]

(* Mutant of line 65: the negation of `optional` is missing. *)
NonceMatchesNotNegated(nonce, nonce_map) ==
    IF nonce.address \in DOMAIN nonce_map
    THEN LET optional == nonce.optional \/ nonce_map[nonce.address].optional
         IN  optional /\ nonce.address = nonce_map[nonce.address].address
    ELSE FALSE

(* The closure given to find (lines 62-69). *)
NonceMatches(nonce, nonce_map) ==
    IF nonce.address \in DOMAIN nonce_map
    THEN LET optional == nonce.optional \/ nonce_map[nonce.address].optional
         IN  ~optional /\ nonce.address = nonce_map[nonce.address].address
    ELSE FALSE

(* Lines 62-69: the first nonce of order2 the closure accepts, or None. *)
FindNonce(order1, order2) ==
    LET ns == nonces[order2]
        hits == {k \in 1..Len(ns) : NonceMatches(ns[k], NonceMap(order1))}
    IN  IF hits = {} THEN None
        ELSE Some(ns[CHOOSE k \in hits : \A m \in hits : k <= m])

(* Mutant of lines 94-97: the two profits are stored in each other's field. *)
ClassifySwapped(profit_alone, profit_with_conflict) ==
    IF profit_alone = profit_with_conflict
    THEN NoConflict
    ELSE DifferentProfit(profit_with_conflict, profit_alone)

(* Lines 91-98. *)
Classify(profit_alone, profit_with_conflict) ==
    IF profit_alone = profit_with_conflict
    THEN NoConflict
    ELSE DifferentProfit(profit_alone, profit_with_conflict)

(* Mutant of lines 99-102: a failing order2 leaves NoConflict. *)
SecondEntryFailureIgnored(r, profit_alone) ==
    IF r.tag = "Ok" THEN Classify(profit_alone, r.coinbase_profit) ELSE NoConflict

(* Lines 87-104: the entry the result of order2 gives the pair. *)
SecondEntry(r, profit_alone) ==
    IF r.tag = "Ok" THEN Classify(profit_alone, r.coinbase_profit) ELSE Fatal

(* Mutant of lines 80-81: the result of order1 is not added. *)
AccumulateNothing(counter, used) == counter

(* Lines 80-81: `+=` on a counter of the pair. *)
Accumulate(counter, used) == counter + used

(* Mutant of lines 41 and 105: the handle stays in the BlockState. *)
HandedBackNever == "state"

(* Lines 41 and 105: into_provider's result is assigned to state_provider. *)
HandedBack == "loop"

(* Mutant of the product: only the pairs from the diagonal on. *)
NextPairFromDiagonal ==
    IF pj < Len(orders)
    THEN pi' = pi /\ pj' = pj + 1
    ELSE pi' = pi + 1 /\ pj' = pi + 1

(* The next element of orders.iter().cartesian_product(orders.iter()). *)
NextPair ==
    IF pj < Len(orders)
    THEN pi' = pi /\ pj' = pj + 1
    ELSE pi' = pi + 1 /\ pj' = 1

Order1 == orders[pi]
Order2 == orders[pj]
Pair == <<Order1, Order2>>

(* An infrastructure error returned through `?`: the function returns Err, *)
(* its locals (the maps, the live BlockState and the handle) are dropped.  *)
Abort ==
    /\ pc' = "done"
    /\ ret' = "Err"
    /\ returned' = None
    /\ owner' = "dropped"
    /\ provider' = BaseState
    /\ profits_alone' = EmptyMap
    /\ results' = EmptyMap
    /\ second' = EmptyMap
    /\ first' = NoResult
    /\ call' = NoCall
    /\ fork' = << >>
    /\ gas_used' = 0
    /\ blob_gas_used' = 0
    /\ dropped_entries' = Cardinality(DOMAIN results)
    /\ UNCHANGED <<idx, pi, pj>>

(* A commit_order call, for the history variables. *)
Called(r) ==
    /\ infra_seen' = (infra_seen \/ r.tag = "Infra")
    /\ late_commits' = (late_commits \/ infra_seen)

(* The fork after commit_order: a successful order's changes are on it. *)
Committed(state, order, r) ==
    IF r.tag = "Ok"
    THEN [state EXCEPT !.changes = Append(@, order)]
    ELSE state

(* Profits are only compared for equality (line 94), so they are taken up *)
(* to renaming: the first order of the slice that succeeds alone has the  *)
(* profit 50.                                                             *)
FirstProfitFixed ==
    \A k \in 1..Len(orders) :
        (\A m \in 1..(k - 1) : alone[orders[m]] = OrderErr) =>
            alone[orders[k]] \in {OrderErr, Succeeds(50)}

Init ==
    /\ orders \in Slices
    /\ nonces \in [OrderIds -> NonceLists]
    /\ alone \in [OrderIds -> OrderLevel]
    /\ \A id \in OrderIds \ Range(orders) : nonces[id] = << >> /\ alone[id] = OrderErr
    /\ FirstProfitFixed
    /\ pc = "baseline"
    /\ idx = 1
    /\ pi = 1
    /\ pj = 1
    /\ profits_alone = EmptyMap
    /\ results = EmptyMap
    /\ owner = "loop"
    /\ provider = BaseState
    /\ fork = << >>
    /\ gas_used = 0
    /\ blob_gas_used = 0
    /\ ret = "running"
    /\ returned = None
    /\ first = NoResult
    /\ call = NoCall
    /\ second = EmptyMap
    /\ infra_seen = FALSE
    /\ late_commits = FALSE
    /\ dropped_entries = 0
    /\ ClusterIdle
    /\ JobIdle

(* One iteration of the baseline loop (lines 35-42). *)
Baseline ==
    /\ pc = "baseline"
    /\ idx <= Len(orders)
    /\ \E r \in BaselineOutcomes(orders[idx]) :
        LET state == NewArc(provider)
        IN  /\ Called(r)
            /\ IF Propagates(r)
               THEN Abort
               ELSE /\ call' = CommitCall("baseline", <<orders[idx]>>, 0, 0,
                                          Visible(state))
                    /\ profits_alone' =
                           IF r.tag = "Ok"
                           THEN Put(profits_alone, orders[idx], r.coinbase_profit)
                           ELSE profits_alone
                    /\ provider' = IntoProvider(Committed(state, orders[idx], r))
                    /\ owner' = HandedBack
                    /\ idx' = idx + 1
                    /\ UNCHANGED <<pc, pi, pj, results, fork, gas_used,
                                   blob_gas_used, ret, returned, first, second,
                                   dropped_entries>>
    /\ UNCHANGED <<orders, nonces, alone, cvars, jvars>>

(* The baseline loop ends (lines 43-46). *)
BaselineDone ==
    /\ pc = "baseline"
    /\ idx > Len(orders)
    /\ pc' = "pairs"
    /\ UNCHANGED <<orders, nonces, alone, idx, pi, pj, profits_alone, results,
                   owner, provider, fork, gas_used, blob_gas_used, ret,
                   returned, first, call, second, infra_seen, late_commits,
                   dropped_entries, cvars, jvars>>

Skip ==
    /\ NextPair
    /\ UNCHANGED <<orders, nonces, alone, pc, idx, profits_alone, results,
                   owner, provider, fork, gas_used, blob_gas_used, ret,
                   returned, first, call, second, infra_seen, late_commits,
                   dropped_entries, cvars, jvars>>

(* Lines 49-51: an order of the pair has no baseline profit. *)
PairSkipNoBaseline ==
    /\ pc = "pairs"
    /\ pi <= Len(orders)
    /\ ~HasBaselines(Order1, Order2)
    /\ Skip

(* Lines 53-55: the pair is an order with itself. *)
PairSkipSameId ==
    /\ pc = "pairs"
    /\ pi <= Len(orders)
    /\ HasBaselines(Order1, Order2)
    /\ SameId(Order1, Order2)
    /\ Skip

(* Lines 57-72: the nonce short-circuit. *)
PairNonce ==
    /\ pc = "pairs"
    /\ pi <= Len(orders)
    /\ HasBaselines(Order1, Order2)
    /\ ~SameId(Order1, Order2)
    /\ FindNonce(Order1, Order2) # None
    /\ results' = Put(results, Pair, NonceConflict(Unwrap(FindNonce(Order1, Order2)).address))
    /\ NextPair
    /\ UNCHANGED <<orders, nonces, alone, pc, idx, profits_alone,
                   owner, provider, fork, gas_used, blob_gas_used, ret,
                   returned, first, call, second, infra_seen, late_commits,
                   dropped_entries, cvars, jvars>>

(* Lines 74-86: a new BlockState and fork, the counters at zero, and order1 *)
(* committed.                                                              *)
PairCommit1 ==
    /\ pc = "pairs"
    /\ pi <= Len(orders)
    /\ HasBaselines(Order1, Order2)
    /\ ~SameId(Order1, Order2)
    /\ FindNonce(Order1, Order2) = None
    /\ \E r \in PairOutcomes \cup {Infra} :
        LET state == NewArc(provider)
        IN  /\ Called(r)
            /\ IF Propagates(r)
               THEN Abort
               ELSE /\ pc' = "second"
                    /\ owner' = "state"
                    /\ call' = CommitCall("first", Pair, 0, 0, Visible(state))
                    /\ fork' = Committed(state, Order1, r).changes
                    /\ IF r.tag = "Ok"
                       THEN /\ gas_used' = Accumulate(0, r.gas_used)
                            /\ blob_gas_used' = Accumulate(0, r.blob_gas_used)
                            /\ first' = Usage(r)
                            /\ results' = results
                       ELSE /\ gas_used' = 0
                            /\ blob_gas_used' = 0
                            /\ first' = OrderErr
                            /\ results' = Put(results, Pair, Fatal)
                    /\ UNCHANGED <<idx, pi, pj, profits_alone, provider, ret,
                                   returned, second, dropped_entries>>
    /\ UNCHANGED <<orders, nonces, alone, cvars, jvars>>

(* Lines 87-105: order2 committed on the same fork with the counters order1 *)
(* left, the pair classified, the handle taken back.                        *)
PairCommit2 ==
    /\ pc = "second"
    /\ \E r \in PairOutcomes \cup {Infra} :
        LET state == [provider |-> provider, changes |-> fork]
        IN  /\ Called(r)
            /\ IF Propagates(r)
               THEN Abort
               ELSE /\ call' = CommitCall("second", Pair, gas_used, blob_gas_used,
                                          Visible(state))
                    /\ results' = Put(results, Pair,
                                      SecondEntry(r, profits_alone[Order2]))
                    /\ second' = Put(second, Pair,
                                     IF r.tag = "Ok"
                                     THEN Succeeds(r.coinbase_profit)
                                     ELSE OrderErr)
                    /\ provider' = IntoProvider(Committed(state, Order2, r))
                    /\ owner' = HandedBack
                    /\ fork' = << >>
                    /\ gas_used' = 0
                    /\ blob_gas_used' = 0
                    /\ pc' = "pairs"
                    /\ NextPair
                    /\ UNCHANGED <<idx, profits_alone, ret, returned, first,
                                   dropped_entries>>
    /\ UNCHANGED <<orders, nonces, alone, cvars, jvars>>

(* Line 108. *)
Return ==
    /\ pc = "pairs"
    /\ pi > Len(orders)
    /\ pc' = "done"
    /\ ret' = "Ok"
    /\ returned' = Some(results)
    /\ UNCHANGED <<orders, nonces, alone, idx, pi, pj, profits_alone, results,
                   owner, provider, fork, gas_used, blob_gas_used, first, call,
                   second, infra_seen, late_commits, dropped_entries, cvars, jvars>>

Next ==
    \/ Baseline
    \/ BaselineDone
    \/ PairSkipNoBaseline
    \/ PairSkipSameId
    \/ PairNonce
    \/ PairCommit1
    \/ PairCommit2
    \/ Return

Spec == Init /\ [][Next]_vars

----------------------------------------------------------------------------
(* get_conflict_sets (lines 111-159) *)

Remove(m, k) == [x \in (DOMAIN m) \ {k} |-> m[x]]
Get(m, k) == IF k \in DOMAIN m THEN Some(m[k]) ELSE None

(* Keys in a fixed order, to name one iteration order of a map. *)
ClusterIdOrder == <<"A", "B", "C", "D", "E">>
ClusterIds == Range(ClusterIdOrder)
IdRank(id) == CHOOSE k \in 1..Len(ClusterIdOrder) : ClusterIdOrder[k] = id
KeyLess(p, q) ==
    \/ IdRank(p[1]) < IdRank(q[1])
    \/ p[1] = q[1] /\ IdRank(p[2]) < IdRank(q[2])
RECURSIVE SortedKeys(_)
SortedKeys(keys) ==
    IF keys = {} THEN << >>
    ELSE LET least == CHOOSE p \in keys : \A q \in keys \ {p} : KeyLess(p, q)
         IN  <<least>> \o SortedKeys(keys \ {least})

(* Mutant of lines 119 and 126: NoConflict entries are not skipped. *)
SkippedNever(conflict) == FALSE

(* Line 119: the entry is skipped. *)
Skipped(conflict) == conflict = NoConflict

(* Mutants of lines 128-137: the two sets are left as they are; the absorbed *)
(* set is not removed.                                                      *)
MergeSetsSkipped(c, set1id, set2id) == c
MergeSetsKeepsAbsorbed(c, set1id, set2id) ==
    LET set2 == c.conflict_sets[set2id]
        set1 == c.conflict_sets[set1id] \cup set2
    IN  [c EXCEPT
            !.conflict_sets = Put(@, set1id, set1),
            !.order_to_conflict_set =
                [k \in DOMAIN @ |-> IF k \in set2 THEN set1id ELSE @[k]]]

(* Lines 128-137: two different sets are merged into the first. *)
MergeSets(c, set1id, set2id) ==
    LET set2 == c.conflict_sets[set2id]
        set1 == c.conflict_sets[set1id] \cup set2
    IN  [c EXCEPT
            !.conflict_sets = Put(Remove(Remove(@, set1id), set2id), set1id, set1),
            !.order_to_conflict_set =
                [k \in DOMAIN @ |-> IF k \in set2 THEN set1id ELSE @[k]]]

(* Mutant of lines 142-143: only k1 is pointed to the set. *)
AddToSetPointsFirstOnly(c, set_id, k1, k2) ==
    [c EXCEPT
        !.conflict_sets = Put(@, set_id, @[set_id] \cup {k1, k2}),
        !.order_to_conflict_set = Put(@, k1, set_id)]

(* Lines 138-144: one order has a set, both are put in it. *)
AddToSet(c, set_id, k1, k2) ==
    [c EXCEPT
        !.conflict_sets = Put(@, set_id, @[set_id] \cup {k1, k2}),
        !.order_to_conflict_set = Put(Put(@, k1, set_id), k2, set_id)]

(* Lines 145-153: neither order has a set, a new one is made. *)
NewSet(c, k1, k2) ==
    [c EXCEPT
        !.conflict_sets = Put(@, c.set_id, {k1, k2}),
        !.order_to_conflict_set = Put(Put(@, k1, c.set_id), k2, c.set_id),
        !.set_id = c.set_id + 1]

(* The body of the for loop (lines 118-155) for one entry. *)
ClusterEntry(c, k1, k2, conflict) ==
    IF Skipped(conflict) THEN c
    ELSE LET set1id == Get(c.order_to_conflict_set, k1)
             set2id == Get(c.order_to_conflict_set, k2)
         IN  IF set1id # None /\ set2id # None
             THEN IF Unwrap(set1id) = Unwrap(set2id)
                  THEN c
                  ELSE MergeSets(c, Unwrap(set1id), Unwrap(set2id))
             ELSE IF set1id # None THEN AddToSet(c, Unwrap(set1id), k1, k2)
             ELSE IF set2id # None THEN AddToSet(c, Unwrap(set2id), k1, k2)
             ELSE NewSet(c, k1, k2)

(* Mutant of line 157: Reverse is missing, the sort is ascending. *)
SizeBeforeAscending(a, b) == Cardinality(a) <= Cardinality(b)

(* Line 157: sort_by_key(|set| Reverse(set.len())), a stable sort. *)
SizeBefore(a, b) == Cardinality(a) >= Cardinality(b)
InsertBySize(sorted, set) ==
    LET keep == {k \in 1..Len(sorted) : SizeBefore(sorted[k], set)}
        n == IF \A k \in 1..Len(sorted) : k \in keep
             THEN Len(sorted)
             ELSE (CHOOSE k \in 1..Len(sorted) :
                      k \notin keep /\ \A m \in 1..(k - 1) : m \in keep) - 1
    IN  SubSeq(sorted, 1, n) \o <<set>> \o SubSeq(sorted, n + 1, Len(sorted))
RECURSIVE SortBySize(_)
SortBySize(seq) ==
    IF seq = << >> THEN << >>
    ELSE InsertBySize(SortBySize(SubSeq(seq, 1, Len(seq) - 1)), seq[Len(seq)])

(* into_values().collect() (line 156): the sets in any order. *)
Orderings(S) ==
    {s \in [1..Cardinality(S) -> S] : \A m, n \in 1..Cardinality(S) : s[m] = s[n] => m = n}
Values(m) == {m[k] : k \in DOMAIN m}

(* The maps given to the clusterer: at most MaxEntries ordered pairs of *)
(* distinct ids, each with a conflict.                                 *)
PairKeys == {p \in ClusterIds \X ClusterIds : p[1] # p[2]}
ConflictValues == {NoConflict, Fatal, DifferentProfit(50, 30)}
(* Ids are opaque hash keys, so maps are taken up to renaming of the ids: in *)
(* the sorted list of keys the k-th distinct id is ClusterIdOrder[k].  Every *)
(* map has such a renaming (the least one, by its sorted list of keys).      *)
IsCanonical(keys) ==
    LET sk == SortedKeys(keys)
        flat == [i \in 1..(2 * Len(sk)) |-> sk[(i + 1) \div 2][2 - (i % 2)]]
    IN  \A i \in 1..Len(flat) :
            \/ \E m \in 1..(i - 1) : flat[m] = flat[i]
            \/ IdRank(flat[i]) = Cardinality({flat[m] : m \in 1..(i - 1)}) + 1
ConflictMaps ==
    UNION {[keys -> ConflictValues] :
               keys \in {ks \in SUBSET PairKeys :
                             Cardinality(ks) <= MaxEntries /\ IsCanonical(ks)}}

(* find_conflict_slow is not running. *)
AnalyzerIdle ==
    /\ orders = << >>
    /\ nonces = [id \in OrderIds |-> << >>]
    /\ alone = [id \in OrderIds |-> OrderErr]
    /\ pc = "idle"
    /\ idx = 1
    /\ pi = 1
    /\ pj = 1
    /\ profits_alone = EmptyMap
    /\ results = EmptyMap
    /\ owner = "loop"
    /\ provider = BaseState
    /\ fork = << >>
    /\ gas_used = 0
    /\ blob_gas_used = 0
    /\ ret = "running"
    /\ returned = None
    /\ first = NoResult
    /\ call = NoCall
    /\ second = EmptyMap
    /\ infra_seen = FALSE
    /\ late_commits = FALSE
    /\ dropped_entries = 0

ClusterInit ==
    /\ AnalyzerIdle
    /\ JobIdle
    /\ conflicts \in ConflictMaps
    /\ todo = DOMAIN conflicts
    /\ cl = EmptyClusters
    /\ cpc = "loop"
    /\ out = << >>

(* One iteration of the for loop over the map (line 118), the map's *)
(* entries coming in any order.                                     *)
ClusterStep ==
    /\ cpc = "loop"
    /\ \E key \in todo :
        /\ cl' = ClusterEntry(cl, key[1], key[2], conflicts[key])
        /\ todo' = todo \ {key}
    /\ UNCHANGED <<conflicts, cpc, out, avars, jvars>>

(* Lines 156-158. *)
ClusterFinish ==
    /\ cpc = "loop"
    /\ todo = {}
    /\ \E seq \in Orderings(Values(cl.conflict_sets)) : out' = SortBySize(seq)
    /\ cpc' = "done"
    /\ UNCHANGED <<conflicts, todo, cl, avars, jvars>>

ClusterNext == ClusterStep \/ ClusterFinish

ClusterSpec == ClusterInit /\ [][ClusterNext]_vars

----------------------------------------------------------------------------
(* spawn_clean_orderpool_job (clean_orderpool.rs lines 21-84): the task    *)
(* spawned at line 36, the cancellation token and the orderpool mutex it   *)
(* shares with the rest of the builder.                                    *)

(* The blocks the subscription may deliver: `number` is an Option. *)
Blocks == {[number |-> None], [number |-> Some(17)], [number |-> Some(18)]}

(* Line 52: block.number.unwrap_or_default().as_u64(). *)
BlockNumber(b) == IF b.number = None THEN 0 ELSE Unwrap(b.number)

(* The history of one iteration of the block loop: the block, the result *)
(* of provider_factory.latest(), whether the task locked the orderpool,  *)
(* and the head_updated calls with the number passed and whether the     *)
(* task held the mutex.                                                  *)
Iteration(b) ==
    [block |-> b, latest |-> "pending", locked |-> FALSE, head_updated |-> << >>]
HeadUpdated(block_number, held) == [block_number |-> block_number, held |-> held]
Last(h) == h[Len(h)]
SetLast(h, e) == [h EXCEPT ![Len(h)] = e]

(* Mutant of lines 43 and 80: the token is left as it is. *)
CancelForgotten(token) == token

(* Lines 43 and 80: global_cancellation.cancel(). *)
Cancel(token) == TRUE

(* Mutant of lines 54-61: the error of latest() is logged and ignored. *)
AfterLatestIgnoresError(ok) == "lock"

(* Lines 54-61: with the state the iteration goes on to the orderpool; on *)
(* an error it continues with the next block.                            *)
AfterLatest(ok) == IF ok THEN "lock" ELSE "await"

JobInit ==
    /\ AnalyzerIdle
    /\ ClusterIdle
    /\ jpc = "subscribe"
    /\ cancelled \in BOOLEAN
    /\ holder \in {"none", "other"}
    /\ stream = "none"
    /\ block = None
    /\ log = << >>

(* Lines 39-47: the subscription of the task; on an error the token is *)
(* cancelled and the task returns.                                     *)
JobSubscribe ==
    /\ jpc = "subscribe"
    /\ \E ok \in BOOLEAN :
        IF ok
        THEN /\ stream' = "open"
             /\ jpc' = "await"
             /\ UNCHANGED cancelled
        ELSE /\ stream' = "failed"
             /\ cancelled' = Cancel(cancelled)
             /\ jpc' = "finished"
    /\ UNCHANGED <<holder, block, log, avars, cvars>>

(* Line 49: the stream, taken until the token is cancelled, yields a block. *)
JobNextBlock ==
    /\ jpc = "await"
    /\ stream = "open"
    /\ ~cancelled
    /\ Len(log) < MaxBlocks
    /\ \E b \in Blocks :
        /\ block' = Some(b)
        /\ log' = Append(log, Iteration(b))
    /\ jpc' = "latest"
    /\ UNCHANGED <<cancelled, holder, stream, avars, cvars>>

(* Lines 50-61: the block number, and the latest state or its error. *)
JobLatest ==
    /\ jpc = "latest"
    /\ \E ok \in BOOLEAN :
        /\ log' = SetLast(log, [Last(log) EXCEPT !.latest = IF ok THEN "ok" ELSE "err"])
        /\ jpc' = AfterLatest(ok)
    /\ UNCHANGED <<cancelled, holder, stream, block, avars, cvars>>

(* Line 63: orderpool.lock() returns once the mutex is free. *)
JobLock ==
    /\ jpc = "lock"
    /\ holder = "none"
    /\ holder' = "job"
    /\ log' = SetLast(log, [Last(log) EXCEPT !.locked = TRUE])
    /\ jpc' = "update"
    /\ UNCHANGED <<cancelled, stream, block, avars, cvars>>

(* Lines 64-77: head_updated with the block number, then the metrics. *)
JobHeadUpdated ==
    /\ jpc = "update"
    /\ log' = SetLast(log, [Last(log) EXCEPT !.head_updated =
                   Append(@, HeadUpdated(BlockNumber(Unwrap(block)), holder = "job"))])
    /\ jpc' = "release"
    /\ UNCHANGED <<cancelled, holder, stream, block, avars, cvars>>

(* Line 78: the guard goes out of scope at the end of the loop body. *)
JobRelease ==
    /\ jpc = "release"
    /\ holder' = (IF holder = "job" THEN "none" ELSE holder)
    /\ jpc' = "await"
    /\ UNCHANGED <<cancelled, stream, block, log, avars, cvars>>

(* Lines 49 and 80-81: the stream ends, because the token is cancelled or *)
(* the subscription is over; the token is cancelled and the task ends.    *)
JobLoopEnds ==
    /\ jpc = "await"
    /\ cancelled \/ stream = "closed"
    /\ cancelled' = Cancel(cancelled)
    /\ jpc' = "finished"
    /\ UNCHANGED <<holder, stream, block, log, avars, cvars>>

(* Another holder of the token cancels it. *)
CancelRequested ==
    /\ jpc # "idle"
    /\ ~cancelled
    /\ cancelled' = TRUE
    /\ UNCHANGED <<jpc, holder, stream, block, log, avars, cvars>>

(* The subscription ends on the provider's side. *)
StreamCloses ==
    /\ stream = "open"
    /\ stream' = "closed"
    /\ UNCHANGED <<jpc, cancelled, holder, block, log, avars, cvars>>

(* Another user of the orderpool takes and gives back the mutex. *)
OtherLocks ==
    /\ jpc # "idle"
    /\ holder = "none"
    /\ holder' = "other"
    /\ UNCHANGED <<jpc, cancelled, stream, block, log, avars, cvars>>

OtherUnlocks ==
    /\ jpc # "idle"
    /\ holder = "other"
    /\ holder' = "none"
    /\ UNCHANGED <<jpc, cancelled, stream, block, log, avars, cvars>>

JobNext ==
    \/ JobSubscribe
    \/ JobNextBlock
    \/ JobLatest
    \/ JobLock
    \/ JobHeadUpdated
    \/ JobRelease
    \/ JobLoopEnds
    \/ CancelRequested
    \/ StreamCloses
    \/ OtherLocks
    \/ OtherUnlocks

JobSpec == JobInit /\ [][JobNext]_vars

(* The task is scheduled until it ends, every call it awaits returns, a  *)
(* holder of the mutex gives it back and a waiting lock() gets the mutex *)
(* after finitely many releases.                                         *)
JobFairness ==
    /\ WF_vars(JobSubscribe)
    /\ WF_vars(JobLatest)
    /\ SF_vars(JobLock)
    /\ WF_vars(JobHeadUpdated)
    /\ WF_vars(JobRelease)
    /\ WF_vars(JobLoopEnds)
    /\ WF_vars(OtherUnlocks)

JobFairSpec == JobInit /\ [][JobNext]_vars /\ JobFairness

----------------------------------------------------------------------------
(* Properties of find_conflict_slow, checked under Spec *)

FailsAlone(o) == alone[o] = OrderErr
Mentions(m, o) == \E key \in DOMAIN m : key[1] = o \/ key[2] = o

(* C1: an order that fails when simulated alone is a member of no key of  *)
(* the conflict map, neither while the map is built nor in the map that   *)
(* is returned, whatever the other orders and the pair simulations do.    *)
C1_FailedAloneHasNoEntry ==
    \A o \in Range(orders) :
        FailsAlone(o) => \A m \in {results} \cup returned : ~Mentions(m, o)

(* C1 witness: the call returned Ok for a slice holding an order that fails *)
(* alone beside one that has a baseline.                                    *)
C1_Witness ==
    /\ ret = "Ok"
    /\ \E o \in Range(orders) : FailsAlone(o)
    /\ \E o \in Range(orders) : ~FailsAlone(o)

(* The accounts on which both orders declare a non-optional nonce. *)
Required(o) ==
    {nonces[o][k].address : k \in {m \in 1..Len(nonces[o]) : ~nonces[o][m].optional}}
SharedRequired(a, b) == Required(a) \cap Required(b)

(* C2: for two distinct orders with a baseline that both declare a        *)
(* non-optional nonce on a same account, the pair is never simulated, any *)
(* entry of the pair is Nonce of such a shared account, and the returned  *)
(* map has that entry.                                                    *)
C2_NonceRule ==
    \A a \in DOMAIN profits_alone, b \in DOMAIN profits_alone :
        (a # b /\ SharedRequired(a, b) # {}) =>
            /\ <<a, b>> \notin DOMAIN second
            /\ <<a, b>> \in DOMAIN results =>
                   /\ results[<<a, b>>].kind = "Nonce"
                   /\ results[<<a, b>>].address \in SharedRequired(a, b)
            /\ ret = "Ok" =>
                   /\ returned # None
                   /\ <<a, b>> \in DOMAIN Unwrap(returned)
                   /\ Unwrap(returned)[<<a, b>>].kind = "Nonce"
                   /\ Unwrap(returned)[<<a, b>>].address \in SharedRequired(a, b)

(* C2 witness: Ok was returned for two orders with baselines that share two *)
(* non-optional accounts.                                                   *)
C2_Witness ==
    /\ ret = "Ok"
    /\ \E a \in DOMAIN profits_alone, b \in DOMAIN profits_alone :
           a # b /\ Cardinality(SharedRequired(a, b)) = 2

(* C3: a DifferentProfit entry of (a, b) holds two different profits, b's *)
(* baseline profit and b's profit when committed after a; a NoConflict    *)
(* entry of (a, b) comes from a pair simulation in which b's profit after *)
(* a equals b's baseline profit.                                          *)
C3_ProfitEntries ==
    \A m \in {results} \cup returned : \A key \in DOMAIN m :
        /\ m[key].kind = "DifferentProfit" =>
               /\ m[key].profit_alone # m[key].profit_with_conflict
               /\ m[key].profit_alone = profits_alone[key[2]]
               /\ key \in DOMAIN second
               /\ second[key] = Succeeds(m[key].profit_with_conflict)
        /\ m[key] = NoConflict =>
               /\ key \in DOMAIN second
               /\ second[key] = Succeeds(profits_alone[key[2]])

(* C3 witness: the returned map has a DifferentProfit and a NoConflict *)
(* entry, for orders of different baseline profits.                    *)
C3_Witness ==
    /\ ret = "Ok"
    /\ \E m \in returned : \E k1 \in DOMAIN m, k2 \in DOMAIN m :
           /\ m[k1].kind = "DifferentProfit"
           /\ m[k2] = NoConflict
           /\ profits_alone[k1[1]] # profits_alone[k1[2]]

(* C9: an infrastructure error of any commit_order call ends the call at  *)
(* once: the call has returned Err in the very state the error shows, no  *)
(* commit_order call follows it, no map is handed out, and Err is         *)
(* returned for no other reason.                                          *)
C9_InfraErrorIsFatal ==
    /\ infra_seen => (pc = "done" /\ ret = "Err" /\ returned = None)
    /\ ~late_commits
    /\ ret = "Err" => infra_seen
    /\ pc = "done" => ~ENABLED Next

(* C9 witness: Err was returned when two entries had been computed. *)
C9_Witness == ret = "Err" /\ dropped_entries = 2

C11_NoSelfPair ==
    \A m \in {results} \cup returned : \A key \in DOMAIN m : key[1] # key[2]

(* C11 witness: Ok was returned for a slice that holds twice the id of an *)
(* order with a baseline, so the order met itself in the product.         *)
C11_Witness ==
    /\ ret = "Ok"
    /\ \E m \in 1..Len(orders), n \in 1..Len(orders) :
           m # n /\ orders[m] = orders[n] /\ orders[m] \in DOMAIN profits_alone

(* The pair has been, or is being, simulated. *)
Simulated(key) == key \in DOMAIN second \/ (pc = "second" /\ Pair = key)

(* The accounts both orders declare, at least one of them as non-optional. *)
Declared(o) == {nonces[o][k].address : k \in 1..Len(nonces[o])}
SharedOneRequired(a, b) ==
    (Declared(a) \cap Declared(b)) \cap (Required(a) \cup Required(b))

(* C12 as stated: for two distinct orders with a baseline that declare a  *)
(* same account, at least one of them as non-optional, the pair is not    *)
(* simulated and the returned map has Nonce of such an account for it.    *)
C12_AtLeastOneRequired ==
    \A a \in DOMAIN profits_alone, b \in DOMAIN profits_alone :
        (a # b /\ SharedOneRequired(a, b) # {}) =>
            /\ ~Simulated(<<a, b>>)
            /\ \A m \in returned :
                   /\ <<a, b>> \in DOMAIN m
                   /\ m[<<a, b>>].kind = "Nonce"
                   /\ m[<<a, b>>].address \in SharedOneRequired(a, b)

(* C12 amended: for two distinct orders with a baseline that declare a    *)
(* same account, both as non-optional, the pair is not simulated and the  *)
(* returned map has Nonce of such an account for it; when every account   *)
(* the two share is optional for one of them, no Nonce is recorded.       *)
C12_BothRequired ==
    \A a \in DOMAIN profits_alone : \A b \in DOMAIN profits_alone \ {a} :
        LET shared == SharedRequired(a, b)
        IN  IF shared # {}
            THEN /\ ~Simulated(<<a, b>>)
                 /\ \A m \in returned :
                        /\ <<a, b>> \in DOMAIN m
                        /\ m[<<a, b>>].kind = "Nonce"
                        /\ m[<<a, b>>].address \in shared
            ELSE /\ <<a, b>> \in DOMAIN results =>
                        results[<<a, b>>].kind # "Nonce"
                 /\ \A m \in returned :
                        <<a, b>> \in DOMAIN m => m[<<a, b>>].kind # "Nonce"

(* C12 witness: Ok was returned with a Nonce entry for a first order that *)
(* declares two accounts and a second order that declares the later one.  *)
C12_Witness ==
    /\ ret = "Ok"
    /\ \E m \in returned : \E key \in DOMAIN m :
           /\ m[key].kind = "Nonce"
           /\ Len(nonces[key[1]]) = 2
           /\ Len(nonces[key[2]]) = 1

(* C13: when order1 failed in the pair simulation, order2 is committed on *)
(* the same fork, on which the failed order left nothing, and the entry   *)
(* of the pair is Fatal once the simulation is over and in the returned   *)
(* map.                                                                   *)
C13_FirstFailureIsFatal ==
    /\ (pc = "second" /\ first = OrderErr) =>
           (owner = "state" /\ fork = << >> /\ results[Pair] = Fatal)
    /\ (call.site = "second" /\ first = OrderErr) =>
           /\ call.visible = BaseState
           /\ \A m \in {results} \cup returned : m[call.key] = Fatal

(* The entry a finished simulation of the pair gives, from the outcome of *)
(* its second order and that order's baseline profit alone.               *)
OwnEntry(key) ==
    IF second[key] = OrderErr
    THEN Fatal
    ELSE IF second[key].coinbase_profit = profits_alone[key[2]]
         THEN NoConflict
         ELSE DifferentProfit(profits_alone[key[2]], second[key].coinbase_profit)

(* C14: once the simulation of a pair is over, its entry is Fatal when    *)
(* its second order failed, whether its first order failed or not; the    *)
(* entry of every simulated pair, so of the reversed pair too, is the one *)
(* its own simulation gives, whatever the other pairs did.                *)
C14_SecondFailureIsFatal ==
    \A key \in DOMAIN second :
        ~(pc = "second" /\ Pair = key) =>
            /\ second[key] = OrderErr => results[key] = Fatal
            /\ results[key] = OwnEntry(key)
            /\ \A m \in returned :
                   /\ second[key] = OrderErr => m[key] = Fatal
                   /\ m[key] = OwnEntry(key)

(* C14 witness: Ok was returned after a simulation in which both orders *)
(* failed, its pair is Fatal and the reversed pair is not.              *)
C14_Witness ==
    /\ ret = "Ok"
    /\ call.site = "second"
    /\ first = OrderErr
    /\ second[call.key] = OrderErr
    /\ \E m \in returned :
           /\ m[call.key] = Fatal
           /\ <<call.key[2], call.key[1]>> \in DOMAIN m
           /\ m[<<call.key[2], call.key[1]>>].kind = "DifferentProfit"

(* C15: the handle always gives the chain state from before the call; a  *)
(* baseline run and the first order of a pair are committed on a fork    *)
(* that shows that state only, the second order of a pair on a fork that *)
(* shows besides it the changes of the pair's own first order if that    *)
(* one succeeded; nothing committed in an earlier run is seen.           *)
C15_PerPairIsolation ==
    /\ provider = BaseState
    /\ call.site \in {"baseline", "first"} => call.visible = BaseState
    /\ call.site = "second" =>
           call.visible = (IF first = OrderErr THEN BaseState
                           ELSE BaseState \cup {call.key[1]})

(* C15 witness: Ok was returned after two pair simulations in which every *)
(* order succeeded, so changes had been committed on the earlier forks.   *)
C15_Witness ==
    /\ ret = "Ok"
    /\ Cardinality(DOMAIN second) = 2
    /\ \A key \in DOMAIN second : second[key] # OrderErr
    /\ call.site = "second"
    /\ call.visible = {call.key[1]}

(* C16: the handle is in one place at a time.  Between two runs, so after *)
(* every baseline run, after every pair simulation and through every      *)
(* skipped pair, it is in the loop variable and no fork is live; while a  *)
(* pair is simulated it is in the one live BlockState; after Ok it is     *)
(* still in the loop variable, after Err it was dropped with the locals.  *)
C16_SingleOwner ==
    /\ owner \in {"loop", "state", "dropped"}
    /\ pc \in {"baseline", "pairs"} => (owner = "loop" /\ fork = << >>)
    /\ pc = "second" => owner = "state"
    /\ pc = "done" =>
           /\ fork = << >>
           /\ owner = (IF ret = "Ok" THEN "loop" ELSE "dropped")

(* C16 witness: a pair is being simulated on a fork made from the handle *)
(* that an earlier pair simulation handed back.                          *)
C16_Witness ==
    /\ pc = "second"
    /\ owner = "state"
    /\ Cardinality(DOMAIN second) = 1
    /\ Pair \notin DOMAIN second

(* C17: every baseline run and the first order of every pair are         *)
(* committed with both starting counters at zero, whatever was simulated *)
(* before; the second order of a pair is committed with the gas and the  *)
(* blob gas its first order used when that one succeeded, and with zero  *)
(* when it failed.                                                       *)
C17_GasAccounting ==
    /\ call.site \in {"baseline", "first"} =>
           (call.cumulative_gas_used = 0 /\ call.cumulative_blob_gas_used = 0)
    /\ (call.site = "second" /\ first.tag = "Ok") =>
           /\ call.cumulative_gas_used = first.gas_used
           /\ call.cumulative_blob_gas_used = first.blob_gas_used
    /\ (call.site = "second" /\ first = OrderErr) =>
           (call.cumulative_gas_used = 0 /\ call.cumulative_blob_gas_used = 0)

(* C17 witness: the first order of a pair has just been committed after *)
(* an earlier pair simulation whose first order used gas and blob gas.  *)
C17_Witness ==
    /\ pc = "second"
    /\ call.site = "first"
    /\ first.tag = "Ok"
    /\ gas_used > 0
    /\ blob_gas_used > 0
    /\ \E key \in DOMAIN second : key # Pair /\ second[key] # OrderErr

(* The orders of the slice that succeed alone. *)
Viable == {o \in Range(orders) : ~FailsAlone(o)}

(* C18: the map returned with Ok has for keys exactly the ordered pairs *)
(* of two different orders that both succeed alone, n * (n - 1) keys    *)
(* for n such orders, and for each key one value of the four kinds.     *)
C18_MapTotality ==
    \A m \in returned :
        /\ DOMAIN m = {key \in Viable \X Viable : key[1] # key[2]}
        /\ Cardinality(DOMAIN m) = Cardinality(Viable) * (Cardinality(Viable) - 1)
        /\ \A key \in DOMAIN m :
               m[key].kind \in {"NoConflict", "Nonce", "Fatal", "DifferentProfit"}

(* C18 witness: Ok was returned for two different orders that succeed *)
(* alone, with an entry for each of the two ordered pairs.            *)
C18_Witness ==
    /\ ret = "Ok"
    /\ Cardinality(Viable) = 2
    /\ \E m \in returned : Cardinality(DOMAIN m) = 2

----------------------------------------------------------------------------
(* Properties of get_conflict_sets, checked under ClusterSpec *)

OutSets == {out[i] : i \in 1..Len(out)}

(* The loop run over the entries in the order of a sequence of keys. *)
RECURSIVE ClusterInOrder(_, _)
ClusterInOrder(c, keyseq) ==
    IF keyseq = << >> THEN c
    ELSE ClusterInOrder(
             ClusterEntry(c, keyseq[1][1], keyseq[1][2], conflicts[keyseq[1]]),
             Tail(keyseq))
InKeyOrder == ClusterInOrder(EmptyClusters, SortedKeys(DOMAIN conflicts))

(* C4: whatever the order in which the entries of the map were iterated,  *)
(* the returned sets are, as a set of sets of ids, those of the run that  *)
(* takes the entries in sorted key order; so any two iteration orders     *)
(* give the same partition.                                               *)
C4_ClusteringDeterminism ==
    cpc = "done" => OutSets = Values(InKeyOrder.conflict_sets)

(* C4 witness: a finished run over at least three conflicting entries     *)
(* whose internal set labels differ from those of the sorted-order run.   *)
C4_Witness ==
    /\ cpc = "done"
    /\ Cardinality({k \in DOMAIN conflicts : conflicts[k] # NoConflict}) >= 3
    /\ cl.conflict_sets # InKeyOrder.conflict_sets

(* The ids of the entries that are not NoConflict. *)
ConflictKeys == {k \in DOMAIN conflicts : conflicts[k] # NoConflict}
ConflictingIds == {k[1] : k \in ConflictKeys} \cup {k[2] : k \in ConflictKeys}
MapIds == {k[1] : k \in DOMAIN conflicts} \cup {k[2] : k \in DOMAIN conflicts}

(* C5: every id of an entry that is not NoConflict is in exactly one       *)
(* returned set, the returned sets are pairwise disjoint, and an id that   *)
(* is only in NoConflict entries is in no returned set.                    *)
C5_ClusteringCompleteness ==
    cpc = "done" =>
        /\ \A id \in ConflictingIds :
               Cardinality({i \in 1..Len(out) : id \in out[i]}) = 1
        /\ \A i \in 1..Len(out), j \in 1..Len(out) :
               i # j => out[i] \cap out[j] = {}
        /\ \A id \in MapIds \ ConflictingIds :
               \A i \in 1..Len(out) : id \notin out[i]

(* C5 witness: a finished run with two returned sets over a map that has  *)
(* an id that is only in NoConflict entries.                              *)
C5_Witness ==
    /\ cpc = "done"
    /\ Len(out) = 2
    /\ MapIds # ConflictingIds

(* a and b are linked by an entry that is not NoConflict, in either direction. *)
Linked(a, b) == <<a, b>> \in ConflictKeys \/ <<b, a>> \in ConflictKeys

(* C6: if a is linked with b and b with c by entries that are not         *)
(* NoConflict, a, b and c are in the same returned set.                   *)
C6_Transitivity ==
    cpc = "done" =>
        \A a \in ConflictingIds, b \in ConflictingIds, c \in ConflictingIds :
            (Linked(a, b) /\ Linked(b, c)) =>
                \E i \in 1..Len(out) : {a, b, c} \subseteq out[i]

(* C6 witness: the merge case: two sets were made, and the entry that     *)
(* links a member of one with a member of the other left a single set.    *)
C6_Witness ==
    /\ cpc = "done"
    /\ cl.set_id = 2
    /\ Len(out) = 1
    /\ \E a \in ConflictingIds, b \in ConflictingIds, c \in ConflictingIds :
           a # c /\ Linked(a, b) /\ Linked(b, c)

(* The connected components of the undirected graph of the entries that  *)
(* are not NoConflict.                                                    *)
Grow(S) == S \cup {id \in ConflictingIds : \E x \in S : Linked(x, id)}
RECURSIVE Reachable(_)
Reachable(S) == IF Grow(S) = S THEN S ELSE Reachable(Grow(S))
Components == {Reachable({id}) : id \in ConflictingIds}

(* C7: the returned sets are exactly the connected components of the     *)
(* undirected graph with an edge for every entry that is not NoConflict, *)
(* each component once.                                                   *)
C7_ConnectedComponents ==
    cpc = "done" =>
        /\ OutSets = Components
        /\ Len(out) = Cardinality(Components)

(* C7 witness: a finished run with two components, one of them held       *)
(* together by an entry whose opposite entry is NoConflict.               *)
C7_Witness ==
    /\ cpc = "done"
    /\ Len(out) = 2
    /\ \E k \in ConflictKeys :
           /\ <<k[2], k[1]>> \in DOMAIN conflicts
           /\ conflicts[<<k[2], k[1]>>] = NoConflict

(* C8: the returned vector is in descending order of size. *)
C8_SortedBySize ==
    cpc = "done" =>
        \A i \in 1..Len(out), j \in 1..Len(out) :
            i < j => Cardinality(out[i]) >= Cardinality(out[j])

(* C8 witness: two returned sets of different sizes. *)
C8_Witness ==
    /\ cpc = "done"
    /\ Len(out) = 2
    /\ Cardinality(out[1]) # Cardinality(out[2])

----------------------------------------------------------------------------
(* Properties of spawn_clean_orderpool_job, checked under JobSpec and *)
(* JobFairSpec                                                        *)

(* The iteration of log[k] is over. *)
IterationOver(k) == k < Len(log) \/ jpc \in {"await", "finished"}

(* C19: for every block the loop receives: when the latest state cannot be *)
(* had, the task does not lock the orderpool for it, does not call         *)
(* head_updated for it and goes back to await the next block; when it can  *)
(* be had, head_updated is called exactly once for the block, with the     *)
(* block's number (zero for a block without a number) and with the mutex   *)
(* held by the task; the task holds the mutex at no time at which it       *)
(* awaits a block.                                                         *)
C19_BlockHandling ==
    /\ \A k \in 1..Len(log) :
           /\ log[k].latest = "err" =>
                  /\ ~log[k].locked
                  /\ log[k].head_updated = << >>
                  /\ IterationOver(k)
           /\ log[k].locked => log[k].latest = "ok"
           /\ Len(log[k].head_updated) <= 1
           /\ \A c \in 1..Len(log[k].head_updated) :
                  /\ log[k].head_updated[c].held
                  /\ log[k].block.number # None =>
                         log[k].head_updated[c].block_number = Unwrap(log[k].block.number)
                  /\ log[k].block.number = None =>
                         log[k].head_updated[c].block_number = 0
           /\ (log[k].latest = "ok" /\ IterationOver(k)) =>
                  Len(log[k].head_updated) = 1
    /\ holder = "job" => jpc \in {"update", "release"}

(* C19 witness: the state of a first block could not be had, and the task *)
(* has gone on to a second block, for which it has called head_updated    *)
(* and given the mutex back.                                              *)
C19_Witness ==
    /\ Len(log) = 2
    /\ log[1].latest = "err"
    /\ log[2].latest = "ok"
    /\ Len(log[2].head_updated) = 1
    /\ log[1].block # log[2].block
    /\ jpc = "await"
    /\ holder # "job"

====
